---- MODULE Spec2Model ----
(***************************************************************************)
(* GitHub tool adapter: the synchronous server (github_server.py, built on *)
(* requests) and the asynchronous server (githubclaude.py, built on        *)
(* httpx).  Every tool builds one HTTP request, waits for the remote       *)
(* outcome and renders it into a string.                                   *)
(*                                                                         *)
(* Text is a sequence of segments; concatenation of strings is \o of the   *)
(* segment sequences, "\n" is the segment NL.  JSON scalars are records    *)
(* [t, s, n, b]; a response body is a record [t, n, fields, items].        *)
(* Definitions prefixed server_ model github_server.py, those prefixed     *)
(* claude_ model githubclaude.py.                                          *)
(***************************************************************************)
EXTENDS Integers, Sequences, FiniteSets, TLC

VARIABLES GITHUB_PAT, pc, call, requests, response, awaited, result

vars == <<GITHUB_PAT, pc, call, requests, response, awaited, result>>

(* ------------------------------ bounds -------------------------------- *)
\* number of invocation slots the framework may have open at once
NProcs == 2
\* longest repository collection the remote returns
MaxRepos == 11

Procs == 1..NProcs

(* --------------------------- JSON and text ---------------------------- *)
NL == "\n"
INDENT == "        "
SP == " "

\* A string is a TLA+ string; Char, find and SubSeq read it character by
\* character.  The characters a string of this module can hold are U+0001 to
\* U+00FF: Latin1 holds each of them at the position of its code point.
Latin1 ==
  "\t\n\f\r" \o
  " !\"#$%&'()*+,-./0123456789:;<=>?" \o
  "@ABCDEFGHIJKLMNOPQRSTUVWXYZ[\\]^_" \o
  SubSeq("`'", 1, 1) \o "abcdefghijklmnopqrstuvwxyz{|}~" \o
  "" \o
  " ¡¢£¤¥¦§¨©ª«¬­®¯°±²³´µ¶·¸¹º»¼½¾¿" \o
  "ÀÁÂÃÄÅÆÇÈÉÊËÌÍÎÏÐÑÒÓÔÕÖ×ØÙÚÛÜÝÞß" \o
  "àáâãäåæçèéêëìíîïðñòóôõö÷øùúûüýþÿ"

Char(x, k) == SubSeq(x, k, k)
Chars(x) == { Char(x, k) : k \in 1..Len(x) }

\* the position of the first c in x at or after position k, 0 when there is none
find(x, c, k) ==
  IF \A j \in k..Len(x) : Char(x, j) # c THEN 0
  ELSE CHOOSE j \in k..Len(x) :
         Char(x, j) = c /\ \A m \in k..(j - 1) : Char(x, m) # c

\* Python's ord() and chr()
ord(c) == find(Latin1, c, 1)
chr(n) == Char(Latin1, n)

\* the characters str.strip() removes (those with str.isspace()): tab, line
\* feed, vertical tab, form feed, carriage return, the four separators
\* U+001C to U+001F, blank, next line U+0085 and no-break space U+00A0
Whitespace ==
  { chr(n) : n \in {9, 10, 11, 12, 13, 28, 29, 30, 31, 32, 133, 160} }

\* the one segment of a string; the empty string has none
Text(x) == IF x = "" THEN <<>> ELSE <<x>>

JNull == [t |-> "null", s |-> <<>>, n |-> 0, b |-> FALSE]
\* a JSON string given as a text
JText(x) == [t |-> "str", s |-> x, n |-> 0, b |-> FALSE]
\* a JSON string
JStr(x) == JText(Text(x))
JInt(x) == [t |-> "int", s |-> <<>>, n |-> x, b |-> FALSE]
JBool(x) == [t |-> "bool", s |-> <<>>, n |-> 0, b |-> x]

\* Python's str() of a JSON scalar, as an f-string field renders it
str(v) ==
  CASE v.t = "str" -> v.s
    [] v.t = "int" -> <<ToString(v.n)>>
    [] v.t = "bool" -> (IF v.b THEN <<"True">> ELSE <<"False">>)
    [] OTHER -> <<"None">>

\* fault: dict.get(key) with the default dropped
get_without_default(d, key, default) == IF key \in DOMAIN d THEN d[key] ELSE JNull

\* dict.get(key, default)
get(d, key, default) == IF key \in DOMAIN d THEN d[key] ELSE default

\* one segment without the whitespace characters at its start
lstrip_segment(x) ==
  IF \A k \in 1..Len(x) : Char(x, k) \in Whitespace THEN ""
  ELSE SubSeq(x,
              CHOOSE k \in 1..Len(x) :
                Char(x, k) \notin Whitespace
                /\ \A m \in 1..(k - 1) : Char(x, m) \in Whitespace,
              Len(x))

\* one segment without the whitespace characters at its end
rstrip_segment(x) ==
  IF \A k \in 1..Len(x) : Char(x, k) \in Whitespace THEN ""
  ELSE SubSeq(x, 1,
              CHOOSE k \in 1..Len(x) :
                Char(x, k) \notin Whitespace
                /\ \A m \in (k + 1)..Len(x) : Char(x, m) \in Whitespace)

RECURSIVE lstrip(_)
\* str.lstrip(): the whitespace characters go from the start of the text, a
\* segment they empty goes with them
lstrip(s) ==
  IF s = <<>> THEN s
  ELSE LET x == lstrip_segment(Head(s))
       IN IF x = "" THEN lstrip(Tail(s)) ELSE <<x>> \o Tail(s)

RECURSIVE rstrip(_)
\* str.rstrip()
rstrip(s) ==
  IF s = <<>> THEN s
  ELSE LET x == rstrip_segment(s[Len(s)])
           init == SubSeq(s, 1, Len(s) - 1)
       IN IF x = "" THEN rstrip(init) ELSE Append(init, x)

\* str.strip()
strip(s) == rstrip(lstrip(s))

RECURSIVE join(_, _)
\* sep.join(list of texts)
join(sep, list) ==
  IF list = <<>> THEN <<>>
  ELSE IF Len(list) = 1 THEN list[1]
  ELSE list[1] \o <<sep>> \o join(sep, Tail(list))

RECURSIVE concat(_)
\* the string a text spells: "".join(segments)
concat(text) ==
  IF text = <<>> THEN ""
  ELSE IF Len(text) = 1 THEN text[1]
  ELSE concat(SubSeq(text, 1, Len(text) \div 2))
       \o concat(SubSeq(text, (Len(text) \div 2) + 1, Len(text)))

(* ------------------------- response bodies ---------------------------- *)
\* a body that is not JSON (none at all, "<html>", "{"): response.json()
\* raises
NoBody == [t |-> "none", n |-> 0, fields |-> <<>>, items |-> <<>>]
BNull == [t |-> "null", n |-> 0, fields |-> <<>>, items |-> <<>>]
BNum(k) == [t |-> "num", n |-> k, fields |-> <<>>, items |-> <<>>]
BObj(f) == [t |-> "obj", n |-> 0, fields |-> f, items |-> <<>>]
BList(l) == [t |-> "list", n |-> 0, fields |-> <<>>, items |-> l]

\* Python truthiness of a parsed JSON value (`if not data`)
truthy(body) ==
  CASE body.t = "obj" -> DOMAIN body.fields # {}
    [] body.t = "list" -> body.items # <<>>
    [] body.t = "num" -> body.n # 0
    [] OTHER -> FALSE

\* the value has a .get method (it is a dict)
is_dict(body) == body.t = "obj"

(* ----------------------- credential and calls ------------------------- *)
\* os.getenv("GITHUB_PAT"): unset (None), set to "", or set to a token
Credentials ==
  { [set |-> FALSE, value |-> ""],
    [set |-> TRUE, value |-> ""],
    [set |-> TRUE, value |-> "ghp_token"] }

\* `if GITHUB_PAT` : None and "" are both falsy
pat_truthy == GITHUB_PAT.set /\ GITHUB_PAT.value # ""

NoArgs ==
  [username |-> "", name |-> "", description |-> "", private |-> FALSE,
   owner |-> "", repo |-> "", title |-> "", head |-> "", base |-> "",
   body |-> "", pull_number |-> 0, commit_message |-> ""]

NoCall == [variant |-> "", op |-> "", args |-> NoArgs]
NoResponse == [exc |-> FALSE, detail |-> "", status |-> 0, reason |-> "", body |-> NoBody]
NoResult == [raised |-> FALSE, text |-> <<>>]

Returned(text) == [raised |-> FALSE, text |-> text]
\* an exception no handler of the tool catches leaves the tool
Raised == [raised |-> TRUE, text |-> <<>>]

Request(method, url, headers, payload) ==
  [method |-> method, url |-> url, headers |-> headers, json |-> payload]

NoJson == [present |-> FALSE, fields |-> <<>>]
Json(f) == [present |-> TRUE, fields |-> f]

(* ====================== github_server.py (requests) =================== *)
API == "https://api.github.com"

\* fault: the header is built without the `if GITHUB_PAT` test
server_headers_unconditional == ("Authorization" :> <<"token ", GITHUB_PAT.value>>)

\* headers = {"Authorization": f"token {GITHUB_PAT}"} if GITHUB_PAT else {}
server_headers ==
  IF pat_truthy THEN ("Authorization" :> <<"token ", GITHUB_PAT.value>>) ELSE <<>>

\* requests' Response.raise_for_status raises HTTPError for 4xx and 5xx only
server_raise_for_status(status) == 400 <= status /\ status < 600

\* a requests.RequestException leaves the try block: the transport failed,
\* raise_for_status raised, or response.json() could not decode the body
server_RequestException(o, parses) ==
  \/ o.exc
  \/ server_raise_for_status(o.status)
  \/ parses /\ o.body.t = "none"

(* ---- the URL requests prepares from the one the tool hands to it ------ *)
startswith(x, prefix) ==
  Len(x) >= Len(prefix) /\ SubSeq(x, 1, Len(prefix)) = prefix
endswith(x, suffix) ==
  Len(x) >= Len(suffix) /\ SubSeq(x, Len(x) - Len(suffix) + 1, Len(x)) = suffix

RECURSIVE split(_, _)
\* str.split(sep) for a separator of one character
split(x, sep) ==
  LET k == find(x, sep, 1)
  IN IF k = 0 THEN <<x>>
     ELSE <<SubSeq(x, 1, k - 1)>> \o split(SubSeq(x, k + 1, Len(x)), sep)

HexDigits == "0123456789ABCDEF"
HexChars == Chars("0123456789abcdefABCDEF")
Alphanumerics == Chars("ABCDEFGHIJKLMNOPQRSTUVWXYZabcdefghijklmnopqrstuvwxyz0123456789")

\* the characters urllib3 leaves alone in a path, and in a query or fragment
UNRESERVED_CHARS == Alphanumerics \cup Chars("._-~")
SUB_DELIM_CHARS == Chars("!$&'()*+,;=")
PATH_CHARS == UNRESERVED_CHARS \cup SUB_DELIM_CHARS \cup Chars(":@/")
QUERY_CHARS == PATH_CHARS \cup {"?"}
FRAGMENT_CHARS == QUERY_CHARS

\* two upper-case hexadecimal digits of a byte
hex(n) == Char(HexDigits, (n \div 16) + 1) \o Char(HexDigits, (n % 16) + 1)

\* str.upper() of one character of a percent-encoding
upper(c) ==
  IF c \in Chars("abcdef") THEN Char("ABCDEF", find("abcdef", c, 1)) ELSE c

\* int(h, 16) of two hexadecimal digits
int16(h) ==
  16 * (find(HexDigits, upper(Char(h, 1)), 1) - 1)
  + (find(HexDigits, upper(Char(h, 2)), 1) - 1)

\* the percent-encoding of the UTF-8 bytes of one character
percent_encode(c) ==
  LET n == ord(c)
  IN IF n < 128 THEN "%" \o hex(n)
     ELSE "%" \o hex(192 + (n \div 64)) \o "%" \o hex(128 + (n % 64))

\* PERCENT_RE = %[a-fA-F0-9]{2} matches at position k of x
percent_at(x, k) ==
  /\ k >= 1
  /\ k + 2 <= Len(x)
  /\ Char(x, k) = "%"
  /\ Char(x, k + 1) \in HexChars
  /\ Char(x, k + 2) \in HexChars

\* urllib3's _encode_invalid_chars: the percent-encodings of the component
\* go to upper case; when every "%" begins one they are kept, else every "%"
\* is encoded; every other character outside allowed_chars is encoded
encode_invalid_chars(component, allowed_chars) ==
  LET upped == [k \in 1..Len(component) |->
                  IF percent_at(component, k - 1) \/ percent_at(component, k - 2)
                    THEN upper(Char(component, k)) ELSE Char(component, k)]
      is_percent_encoded ==
        \A k \in 1..Len(component) :
          Char(component, k) = "%" => percent_at(component, k)
      encoded == [k \in 1..Len(component) |->
                    IF \/ is_percent_encoded /\ upped[k] = "%"
                       \/ upped[k] \in allowed_chars
                      THEN upped[k] ELSE percent_encode(upped[k])]
  IN concat(encoded)

RECURSIVE remove_path_dot_segments_loop(_, _)
\* the loop of _remove_path_dot_segments over the segments of the path
remove_path_dot_segments_loop(segments, output) ==
  IF segments = <<>> THEN output
  ELSE LET segment == Head(segments)
       IN remove_path_dot_segments_loop(Tail(segments),
            IF segment = "." THEN output
            ELSE IF segment # ".." THEN Append(output, segment)
            ELSE IF output # <<>> THEN SubSeq(output, 1, Len(output) - 1)
            ELSE output)

\* urllib3's _remove_path_dot_segments
remove_path_dot_segments(path) ==
  LET output == remove_path_dot_segments_loop(split(path, "/"), <<>>)
      rooted == IF startswith(path, "/") /\ (output = <<>> \/ output[1] # "")
                  THEN <<"">> \o output ELSE output
      closed == IF endswith(path, "/.") \/ endswith(path, "/..")
                  THEN Append(rooted, "") ELSE rooted
  IN concat(join("/", [k \in 1..Len(closed) |-> <<closed[k]>>]))

\* the percent-encoding at position k of uri stands for an unreserved character
unreserved_at(uri, k) ==
  /\ percent_at(uri, k)
  /\ int16(SubSeq(uri, k + 1, k + 2)) \in 1..Len(Latin1)
  /\ chr(int16(SubSeq(uri, k + 1, k + 2))) \in UNRESERVED_CHARS

\* str.isalnum() of one character
isalnum(c) ==
  \/ c \in Alphanumerics
  \/ ord(c) \in {170, 178, 179, 181, 185, 186, 188, 189, 190}
  \/ ord(c) \in (192..255) \ {215, 247}

\* unquote_unreserved raises InvalidURL: some "%" is followed by two
\* alphanumeric characters that int(h, 16) does not read
unquote_unreserved_raises(uri) ==
  \E k \in 1..(Len(uri) - 2) :
    /\ Char(uri, k) = "%"
    /\ isalnum(Char(uri, k + 1)) /\ isalnum(Char(uri, k + 2))
    /\ ~percent_at(uri, k)

\* requests' unquote_unreserved where it does not raise: a percent-encoding
\* of an unreserved character gives way to the character
unquote_unreserved(uri) ==
  concat([k \in 1..Len(uri) |->
            IF unreserved_at(uri, k) THEN chr(int16(SubSeq(uri, k + 1, k + 2)))
            ELSE IF unreserved_at(uri, k - 1) \/ unreserved_at(uri, k - 2) THEN ""
            ELSE Char(uri, k)])

\* urllib.parse.quote(string, safe)
quote(string, safe) ==
  concat([k \in 1..Len(string) |->
            IF Char(string, k) \in Alphanumerics \cup Chars("_.-~") \cup Chars(safe)
              THEN Char(string, k) ELSE percent_encode(Char(string, k))])

\* requests' requote_uri; after InvalidURL the URI is quoted as it stands,
\* its "%" included
requote_uri(uri) ==
  IF unquote_unreserved_raises(uri)
    THEN quote(uri, "!#$&'()*+,/:;=?@[]~")
    ELSE quote(unquote_unreserved(uri), "!#$%&'()*+,/:;=?@[]~")

\* PreparedRequest.prepare_url for a URL of this API: urllib3's parse_url
\* cuts what follows scheme and authority at the first "#" and the first
\* "?" before it and normalises path, query and fragment; urlunparse puts
\* them together again, leaving out an empty query or fragment
prepare_url(url) ==
  LET whole == concat(url)
      rest == SubSeq(whole, Len(API) + 1, Len(whole))
      h == find(rest, "#", 1)
      hier == IF h = 0 THEN rest ELSE SubSeq(rest, 1, h - 1)
      fragment == IF h = 0 THEN "" ELSE SubSeq(rest, h + 1, Len(rest))
      q == find(hier, "?", 1)
      path == IF q = 0 THEN hier ELSE SubSeq(hier, 1, q - 1)
      query == IF q = 0 THEN "" ELSE SubSeq(hier, q + 1, Len(hier))
      norm_path == encode_invalid_chars(remove_path_dot_segments(path), PATH_CHARS)
      norm_query == encode_invalid_chars(query, QUERY_CHARS)
      norm_fragment == encode_invalid_chars(fragment, FRAGMENT_CHARS)
  IN requote_uri(
       API \o (IF norm_path = "" THEN "/" ELSE norm_path)
       \o (IF norm_query = "" THEN "" ELSE "?" \o norm_query)
       \o (IF norm_fragment = "" THEN "" ELSE "#" \o norm_fragment))

\* str(e) of that exception, for the response to a request sent to url:
\* the transport's own text, the HTTPError message
\* f"{status} Client|Server Error: {reason} for url: {url}" with the URL as
\* requests prepared it, or the message the JSON decoder gave
server_str_e(o, url) ==
  IF o.exc THEN <<o.detail>>
  ELSE IF server_raise_for_status(o.status)
    THEN <<ToString(o.status),
           IF o.status < 500 THEN " Client Error: " ELSE " Server Error: ",
           o.reason, " for url: ", prepare_url(url)>>
  ELSE <<o.detail>>

server_get_user_info_request(username) ==
  Request("GET", <<API, "/users/", username>>, server_headers, NoJson)

server_get_user_info_return(a, o) ==
  IF server_RequestException(o, TRUE)
    THEN Returned(<<"Error", " fetching user info: ">>
                  \o server_str_e(o, server_get_user_info_request(a.username).url))
  ELSE IF ~is_dict(o.body) THEN Raised
  ELSE LET user_data == o.body.fields IN
    Returned(strip(
      <<NL, "User:", " ">>
      \o str(get(user_data, "name", JStr("N/A")))
      \o <<" (@">>
      \o str(get(user_data, "login", JNull))
      \o <<")", NL, "Bio:", " ">>
      \o str(get(user_data, "bio", JStr("N/A")))
      \o <<NL, "Public Repos:", " ">>
      \o str(get(user_data, "public_repos", JInt(0)))
      \o <<NL, "Followers:", " ">>
      \o str(get(user_data, "followers", JInt(0)))
      \o <<NL, "Following:", " ">>
      \o str(get(user_data, "following", JInt(0)))
      \o <<NL, "Location:", " ">>
      \o str(get(user_data, "location", JStr("N/A")))
      \o <<NL, "Company:", " ">>
      \o str(get(user_data, "company", JStr("N/A")))
      \o <<NL, "Created:", " ">>
      \o str(get(user_data, "created_at", JStr("N/A")))
      \o <<NL, INDENT>>))

server_create_repository_request(name, description, private) ==
  Request("POST", <<API, "/user/repos">>, server_headers,
          Json(("name" :> JStr(name)) @@ ("description" :> JStr(description))
               @@ ("private" :> JBool(private))))

\* fault: the "Private:" line echoes the argument instead of the response
server_create_repository_return_echo(a, o) ==
  IF server_RequestException(o, TRUE)
    THEN Returned(<<"Error", " creating repository: ">>
                  \o server_str_e(o, server_create_repository_request(a.name, a.description, a.private).url))
  ELSE IF ~is_dict(o.body) THEN Raised
  ELSE LET repo_data == o.body.fields IN
    Returned(strip(
      <<NL, "Repository created successfully!", NL, "Name:", " ">>
      \o str(get(repo_data, "full_name", JNull))
      \o <<NL, "URL:", " ">>
      \o str(get(repo_data, "html_url", JNull))
      \o <<NL, "Description:", " ">>
      \o str(get(repo_data, "description", JStr("N/A")))
      \o <<NL, "Private:", " ">>
      \o str(JBool(a.private))
      \o <<NL, INDENT>>))

server_create_repository_return(a, o) ==
  IF server_RequestException(o, TRUE)
    THEN Returned(<<"Error", " creating repository: ">>
                  \o server_str_e(o, server_create_repository_request(a.name, a.description, a.private).url))
  ELSE IF ~is_dict(o.body) THEN Raised
  ELSE LET repo_data == o.body.fields IN
    Returned(strip(
      <<NL, "Repository created successfully!", NL, "Name:", " ">>
      \o str(get(repo_data, "full_name", JNull))
      \o <<NL, "URL:", " ">>
      \o str(get(repo_data, "html_url", JNull))
      \o <<NL, "Description:", " ">>
      \o str(get(repo_data, "description", JStr("N/A")))
      \o <<NL, "Private:", " ">>
      \o str(get(repo_data, "private", JBool(FALSE)))
      \o <<NL, INDENT>>))

server_delete_repository_request(owner, repo) ==
  Request("DELETE", <<API, "/repos/", owner, "/", repo>>, server_headers, NoJson)

\* the body is never read: any response that passes raise_for_status confirms
server_delete_repository_return(a, o) ==
  IF server_RequestException(o, FALSE)
    THEN Returned(<<"Error", " deleting repository: ">>
                  \o server_str_e(o, server_delete_repository_request(a.owner, a.repo).url))
  ELSE Returned(<<"Repository ", a.owner, "/", a.repo, " was deleted successfully!">>)

server_create_pull_request_request(owner, repo, title, head, base, body) ==
  Request("POST", <<API, "/repos/", owner, "/", repo, "/pulls">>, server_headers,
          Json(("title" :> JStr(title)) @@ ("head" :> JStr(head))
               @@ ("base" :> JStr(base)) @@ ("body" :> JStr(body))))

server_create_pull_request_return(a, o) ==
  IF server_RequestException(o, TRUE)
    THEN Returned(<<"Error", " creating pull request: ">>
                  \o server_str_e(o, server_create_pull_request_request(a.owner, a.repo, a.title, a.head, a.base, a.body).url))
  ELSE IF ~is_dict(o.body) THEN Raised
  ELSE LET pr_data == o.body.fields IN
    Returned(strip(
      <<NL, "Pull Request created successfully!", NL, "Title:", " ">>
      \o str(get(pr_data, "title", JNull))
      \o <<NL, "PR #:", " ">>
      \o str(get(pr_data, "number", JNull))
      \o <<NL, "URL:", " ">>
      \o str(get(pr_data, "html_url", JNull))
      \o <<NL, "State:", " ">>
      \o str(get(pr_data, "state", JNull))
      \o <<NL, INDENT>>))

\* payload = {}; if commit_message: payload["commit_message"] = commit_message
server_merge_pull_request_request(owner, repo, pull_number, commit_message) ==
  Request("PUT",
          <<API, "/repos/", owner, "/", repo, "/pulls/", ToString(pull_number), "/merge">>,
          server_headers,
          Json(IF commit_message # ""
                 THEN ("commit_message" :> JStr(commit_message)) ELSE <<>>))

server_merge_pull_request_return(a, o) ==
  IF server_RequestException(o, TRUE)
    THEN Returned(<<"Error", " merging pull request: ">>
                  \o server_str_e(o, server_merge_pull_request_request(a.owner, a.repo, a.pull_number, a.commit_message).url))
  ELSE IF ~is_dict(o.body) THEN Raised
  ELSE LET merge_data == o.body.fields IN
    Returned(strip(
      <<NL, "Pull Request #", ToString(a.pull_number), " merged successfully!", NL, "Message:", " ">>
      \o str(get(merge_data, "message", JNull))
      \o <<NL, "SHA:", " ">>
      \o str(get(merge_data, "sha", JNull))
      \o <<NL, INDENT>>))

server_list_repositories_request(username) ==
  Request("GET",
          IF username # "" THEN <<API, "/users/", username, "/repos">>
                           ELSE <<API, "/user/repos">>,
          server_headers, NoJson)

\* fault: the slice is dropped and every repository is listed
first_all(repos) == repos

\* repos[:10]
first_ten(repos) == SubSeq(repos, 1, IF Len(repos) < 10 THEN Len(repos) ELSE 10)

\* f"- {repo.get('full_name')}: {repo.get('description', 'No description')} ({repo.get('html_url')})"
repo_line(repo) ==
  <<"- ">> \o str(get(repo.fields, "full_name", JNull))
  \o <<": ">> \o str(get(repo.fields, "description", JStr("No description")))
  \o <<" (">> \o str(get(repo.fields, "html_url", JNull)) \o <<")">>

\* the loop over repos[:10] followed by the join and the optional note
format_repositories(repos) ==
  LET shown == first_ten(repos)
      repo_list == [k \in 1..Len(shown) |-> repo_line(shown[k])]
  IN <<"Repositories:", NL>> \o join(NL, repo_list)
       \o (IF Len(repos) > 10
             THEN <<NL, NL, "(Showing ", "10", " of ", ToString(Len(repos)), " repositories)">>
             ELSE <<>>)

\* repos[:10] and repo.get raise unless repos is a list of dicts
listable(body) ==
  /\ body.t = "list"
  /\ \A k \in 1..Len(first_ten(body.items)) : body.items[k].t = "obj"

server_list_repositories_return(a, o) ==
  IF server_RequestException(o, TRUE)
    THEN Returned(<<"Error", " listing repositories: ">>
                  \o server_str_e(o, server_list_repositories_request(a.username).url))
  ELSE IF ~truthy(o.body) THEN Returned(<<"No repositories found.">>)
  ELSE IF ~listable(o.body) THEN Raised
  ELSE Returned(format_repositories(o.body.items))

\* f"Hello, {name}!"
hello_world_return(a) == Returned(<<"Hello, ", a.name, "!">>)

(* ======================= githubclaude.py (httpx) ====================== *)
GITHUB_API_BASE == "https://api.github.com"
USER_AGENT == "github-mcp-client/1.0"

\* headers of make_github_request; Authorization only `if GITHUB_PAT`
claude_headers ==
  ("User-Agent" :> <<USER_AGENT>>) @@ ("Accept" :> <<"application/vnd.github+json">>)
  @@ (IF pat_truthy THEN ("Authorization" :> <<"Bearer ", GITHUB_PAT.value>>) ELSE <<>>)

\* the request make_github_request hands to client.request
claude_make_github_request(method, endpoint, payload) ==
  Request(method, <<GITHUB_API_BASE>> \o endpoint, claude_headers, payload)

\* httpx' Response.raise_for_status raises HTTPStatusError unless 2xx
claude_raise_for_status(status) == ~(200 <= status /\ status <= 299)

\* what make_github_request returns: None after any exception (transport,
\* status, undecodable body), else the parsed body.  A JSON null parses to
\* None as well.
claude_make_github_request_return(o) ==
  IF o.exc \/ claude_raise_for_status(o.status) \/ o.body.t = "none"
    THEN BNull
    ELSE o.body

claude_github_user_info_request(username) ==
  claude_make_github_request("GET", <<"/users/", username>>, NoJson)

claude_github_user_info_return(a, data) ==
  IF ~truthy(data) THEN Returned(<<"Error", " fetching user info.">>)
  ELSE IF ~is_dict(data) THEN Raised
  ELSE
    Returned(strip(
      <<NL, "User:", " ">>
      \o str(get(data.fields, "name", JStr("N/A")))
      \o <<" (@">>
      \o str(get(data.fields, "login", JNull))
      \o <<")", NL, "Bio:", " ">>
      \o str(get(data.fields, "bio", JStr("N/A")))
      \o <<NL, "Public Repos:", " ">>
      \o str(get(data.fields, "public_repos", JInt(0)))
      \o <<NL, "Followers:", " ">>
      \o str(get(data.fields, "followers", JInt(0)))
      \o <<NL, "Following:", " ">>
      \o str(get(data.fields, "following", JInt(0)))
      \o <<NL, "Location:", " ">>
      \o str(get(data.fields, "location", JStr("N/A")))
      \o <<NL, "Company:", " ">>
      \o str(get(data.fields, "company", JStr("N/A")))
      \o <<NL, "Created:", " ">>
      \o str(get(data.fields, "created_at", JStr("N/A")))
      \o <<NL>>))

claude_create_repository_request(name, description, private) ==
  claude_make_github_request("POST", <<"/user/repos">>,
    Json(("name" :> JStr(name)) @@ ("description" :> JStr(description))
         @@ ("private" :> JBool(private))))

claude_create_repository_return(a, data) ==
  IF ~truthy(data) THEN Returned(<<"Error", " creating repository.">>)
  ELSE IF ~is_dict(data) THEN Raised
  ELSE
    Returned(strip(
      <<NL, "Repository created successfully!", NL, "Name:", " ">>
      \o str(get(data.fields, "full_name", JNull))
      \o <<NL, "URL:", " ">>
      \o str(get(data.fields, "html_url", JNull))
      \o <<NL, "Description:", " ">>
      \o str(get(data.fields, "description", JStr("N/A")))
      \o <<NL, "Private:", " ">>
      \o str(get(data.fields, "private", JBool(FALSE)))
      \o <<NL>>))

claude_delete_repository_request(owner, repo) ==
  claude_make_github_request("DELETE", <<"/repos/", owner, "/", repo>>, NoJson)

\* `if data is None` confirms the deletion; any parsed body is an error
claude_delete_repository_return(a, data) ==
  IF data.t = "null"
    THEN Returned(<<"Repository ", a.owner, "/", a.repo, " was deleted successfully!">>)
    ELSE Returned(<<"Error", " deleting repository.">>)

claude_create_pull_request_request(owner, repo, title, head, base, body) ==
  claude_make_github_request("POST", <<"/repos/", owner, "/", repo, "/pulls">>,
    Json(("title" :> JStr(title)) @@ ("head" :> JStr(head))
         @@ ("base" :> JStr(base)) @@ ("body" :> JStr(body))))

claude_create_pull_request_return(a, data) ==
  IF ~truthy(data) THEN Returned(<<"Error", " creating pull request.">>)
  ELSE IF ~is_dict(data) THEN Raised
  ELSE
    Returned(strip(
      <<NL, "Pull Request created successfully!", NL, "Title:", " ">>
      \o str(get(data.fields, "title", JNull))
      \o <<NL, "PR #:", " ">>
      \o str(get(data.fields, "number", JNull))
      \o <<NL, "URL:", " ">>
      \o str(get(data.fields, "html_url", JNull))
      \o <<NL, "State:", " ">>
      \o str(get(data.fields, "state", JNull))
      \o <<NL>>))

\* fault: commit_message is put in the payload even when empty
claude_merge_pull_request_request_always(owner, repo, pull_number, commit_message) ==
  claude_make_github_request("PUT",
    <<"/repos/", owner, "/", repo, "/pulls/", ToString(pull_number), "/merge">>,
    Json("commit_message" :> JStr(commit_message)))

\* payload = {"commit_message": commit_message} if commit_message else {}
claude_merge_pull_request_request(owner, repo, pull_number, commit_message) ==
  claude_make_github_request("PUT",
    <<"/repos/", owner, "/", repo, "/pulls/", ToString(pull_number), "/merge">>,
    Json(IF commit_message # ""
           THEN ("commit_message" :> JStr(commit_message)) ELSE <<>>))

claude_merge_pull_request_return(a, data) ==
  IF ~truthy(data) THEN Returned(<<"Error", " merging pull request.">>)
  ELSE IF ~is_dict(data) THEN Raised
  ELSE
    Returned(strip(
      <<NL, "Pull Request #", ToString(a.pull_number), " merged successfully!", NL, "Message:", " ">>
      \o str(get(data.fields, "message", JNull))
      \o <<NL, "SHA:", " ">>
      \o str(get(data.fields, "sha", JNull))
      \o <<NL>>))

claude_list_repositories_request(username) ==
  claude_make_github_request("GET",
    IF username # "" THEN <<"/users/", username, "/repos">> ELSE <<"/user/repos">>,
    NoJson)

claude_list_repositories_return(a, repos) ==
  IF ~truthy(repos) THEN Returned(<<"No repositories found or error occurred.">>)
  ELSE IF ~listable(repos) THEN Raised
  ELSE Returned(format_repositories(repos.items))

(* ------------------------ inputs and outcomes ------------------------- *)
\* "a b" and "%7eo" are not sent as they stand: requests percent-encodes the
\* space, and takes the escape of an unreserved character back
Usernames == {"octocat", "a b"}
ListUsernames == {"", "octocat"}
HelloNames == {"World", "Ada"}
RepoNames == {"demo"}
Descriptions == {"", "A demo"}
Owners == {"octocat", "%7eo"}
PullNumbers == {1, 42}
CommitMessages == {"", "Merge it"}
PullBodies == {"", "Please pull"}

Statuses == {200, 204, 304, 404, 500}

\* the reason phrase the remote sends with a status
Reason(status) ==
  CASE status = 200 -> "OK"
    [] status = 204 -> "No Content"
    [] status = 304 -> "Not Modified"
    [] status = 404 -> "Not Found"
    [] OTHER -> "Internal Server Error"

Transport(detail) ==
  [exc |-> TRUE, detail |-> detail, status |-> 0, reason |-> "", body |-> NoBody]
\* a response whose body is not JSON: response.json() raises a
\* JSONDecodeError whose message, the decoder's, depends on the body
Undecodable(status, message) ==
  [exc |-> FALSE, detail |-> message, status |-> status, reason |-> Reason(status),
   body |-> NoBody]
\* the decoder's message for a body that is empty or starts with no JSON value
ExpectingValue == "Expecting value: line 1 column 1 (char 0)"
Http(status, body) ==
  IF body.t = "none" THEN Undecodable(status, ExpectingValue)
  ELSE [exc |-> FALSE, detail |-> "", status |-> status, reason |-> Reason(status),
        body |-> body]

\* f restricted to the keys in K
Restrict(f, K) == [k \in (DOMAIN f) \cap K |-> f[k]]

Scalar == [t |-> "num", fields |-> <<>>]
Item(f) == [t |-> "obj", fields |-> f]

\* bodies that are not what any tool expects
OddBodies == {NoBody, BNull, BNum(0), BNum(5), BObj(<<>>), BList(<<>>), BList(<<Scalar>>)}

UserFull ==
  ("login" :> JStr("octocat")) @@ ("name" :> JStr("The Octocat")) @@ ("bio" :> JNull)
  @@ ("public_repos" :> JInt(8)) @@ ("followers" :> JInt(3)) @@ ("following" :> JInt(9))
  @@ ("location" :> JStr("San Francisco")) @@ ("company" :> JStr("@github"))
  @@ ("created_at" :> JStr("2011-01-25T18:44:36Z"))

\* the full user, every user lacking one field, every user with one field
\* the last field of the summary empty, blank, or ending in whitespace
EdgeTexts ==
  {<<>>, <<SP>>, <<"2011", SP>>, <<"2011", NL>>, <<"2011\t">>, <<"2011", "\r\n">>,
   <<chr(11), "2011", chr(31)>>}

UserBodies ==
  OddBodies \cup
  { BObj(("created_at" :> JText(e)) @@ UserFull) : e \in EdgeTexts } \cup
  { BObj(("login" :> JText(e)) @@ ("name" :> JText(e)) @@ UserFull) : e \in {<<>>} } \cup
  { BObj(Restrict(UserFull, K)) :
      K \in {DOMAIN UserFull} \cup { DOMAIN UserFull \ {k} : k \in DOMAIN UserFull }
            \cup { {k} : k \in DOMAIN UserFull } }

RepoFull(private) ==
  ("full_name" :> JStr("octocat/demo")) @@ ("html_url" :> JStr("https://github.com/octocat/demo"))
  @@ ("description" :> JStr("A demo")) @@ ("private" :> JBool(private))

RepoBodies ==
  OddBodies \cup
  { BObj(("private" :> v) @@ RepoFull(TRUE)) : v \in {JNull, JText(<<>>), JStr("yes\t")} } \cup
  { BObj(Restrict(RepoFull(p), K)) :
      p \in BOOLEAN,
      K \in {DOMAIN RepoFull(TRUE)} \cup { DOMAIN RepoFull(TRUE) \ {k} : k \in DOMAIN RepoFull(TRUE) } }

DeleteBodies == OddBodies \cup {BObj("message" :> JStr("Not Found"))}

PullFull ==
  ("title" :> JStr("Fix")) @@ ("number" :> JInt(42))
  @@ ("html_url" :> JStr("https://github.com/octocat/demo/pull/42")) @@ ("state" :> JStr("open"))

PullBodiesOut ==
  OddBodies \cup {BObj(PullFull), BObj(Restrict(PullFull, {"number"}))}
  \cup { BObj(("state" :> JText(e)) @@ PullFull) : e \in EdgeTexts }

MergeFull ==
  ("sha" :> JStr("6dcb09b")) @@ ("merged" :> JBool(TRUE))
  @@ ("message" :> JStr("Pull Request successfully merged"))

MergeBodies ==
  OddBodies \cup {BObj(MergeFull), BObj(Restrict(MergeFull, {"merged"}))}
  \cup { BObj(("sha" :> JText(e)) @@ MergeFull) : e \in EdgeTexts }

\* repository k of the remote; the even ones carry no description
RepoItem(k) ==
  Item(("full_name" :> JStr("octocat/r" \o ToString(k)))
       @@ ("html_url" :> JStr("https://github.com/octocat/r" \o ToString(k)))
       @@ (IF k % 2 = 1 THEN ("description" :> JStr("about r" \o ToString(k))) ELSE <<>>))

ListBodies ==
  OddBodies
  \cup { BList([k \in 1..n |-> RepoItem(k)]) : n \in 1..MaxRepos }
  \cup { BList([k \in 1..n |-> RepoItem(n + 1 - k)]) : n \in 2..MaxRepos }
  \cup { BList([k \in 1..n |-> IF k = n THEN Scalar ELSE RepoItem(k)]) : n \in 2..MaxRepos }
  \cup { BObj(RepoFull(FALSE)) }

\* every outcome of the remote call for a tool whose bodies are `bodies`
AllOutcomes(bodies) ==
  {Transport("Connection refused"), Transport("Read timed out")}
  \cup { Http(st, b) : st \in Statuses, b \in bodies }
  \cup { Undecodable(st, "Expecting property name enclosed in double quotes: line 1 column 2 (char 1)") :
           st \in {200, 404} }

\* the bodies of the lighter remote of the concurrent runs: two that differ
\* for each operation that reads its body
LightBodies ==
  {BObj(UserFull), BObj(Restrict(UserFull, {"login"})),
   BObj(RepoFull(TRUE)),
   BObj(Restrict(RepoFull(FALSE), {"full_name", "html_url", "private"})),
   BObj(PullFull), BObj(Restrict(PullFull, {"number"})),
   BObj(MergeFull), BObj(Restrict(MergeFull, {"merged"})),
   BObj("message" :> JStr("Not Found")),
   BList(<<RepoItem(1), RepoItem(2)>>), BList(<<RepoItem(1)>>)}

\* the lighter remote: it accepts
AcceptingOutcomes(bodies) == { Http(200, b) : b \in bodies \cap LightBodies }

\* it accepts or rejects
LightOutcomes(bodies) == AcceptingOutcomes(bodies) \cup {Http(404, NoBody)}

\* it accepts, always with the same body
OneOutcome(bodies) == {CHOOSE o \in AcceptingOutcomes(bodies) : TRUE}

\* The load of a run: "full" draws every input and every outcome; "some"
\* draws every value of the parameters the returned string shows, one value
\* of the others, and a remote that accepts or rejects; "one" draws a
\* single input and a remote that accepts.
Outcomes(load, bodies) ==
  CASE load = "full" -> AllOutcomes(bodies)
    [] load = "some" -> LightOutcomes(bodies)
    [] OTHER -> OneOutcome(bodies)

\* the values of a parameter the returned string does not show
In(load, S) == IF load = "full" THEN S ELSE {CHOOSE x \in S : TRUE}

\* the values of a parameter the returned string shows
Varied(load, S) == IF load = "one" THEN {CHOOSE x \in S : TRUE} ELSE S

(* ------------------------------ actions ------------------------------- *)
Init ==
  /\ GITHUB_PAT \in Credentials
  /\ pc = [i \in Procs |-> "idle"]
  /\ call = [i \in Procs |-> NoCall]
  /\ requests = [i \in Procs |-> <<>>]
  /\ response = [i \in Procs |-> NoResponse]
  /\ awaited = [i \in Procs |-> NoBody]
  /\ result = [i \in Procs |-> NoResult]

\* the tool is entered and hands its one request to the HTTP client
Send(i, variant, op, a, req) ==
  /\ pc[i] = "idle"
  /\ pc' = [pc EXCEPT ![i] = "awaiting"]
  /\ call' = [call EXCEPT ![i] = [variant |-> variant, op |-> op, args |-> a]]
  /\ requests' = [requests EXCEPT ![i] = Append(@, req)]
  /\ UNCHANGED <<GITHUB_PAT, response, awaited, result>>

\* github_server.py: the blocking call comes back with outcome o and the
\* tool, which yields nowhere, ends with res
Receive(i, variant, op, o, res) ==
  /\ pc[i] = "awaiting"
  /\ call[i].variant = variant
  /\ call[i].op = op
  /\ pc' = [pc EXCEPT ![i] = "done"]
  /\ response' = [response EXCEPT ![i] = o]
  /\ result' = [result EXCEPT ![i] = res]
  /\ UNCHANGED <<GITHUB_PAT, call, requests, awaited>>

\* githubclaude.py: `await client.request` resumes with outcome o and
\* make_github_request fixes its return value d inside `async with`; the
\* exit of the client is awaited next, and other invocations may run
Resume(i, op, o, d) ==
  /\ pc[i] = "awaiting"
  /\ call[i].variant = "claude"
  /\ call[i].op = op
  /\ pc' = [pc EXCEPT ![i] = "closing"]
  /\ response' = [response EXCEPT ![i] = o]
  /\ awaited' = [awaited EXCEPT ![i] = d]
  /\ UNCHANGED <<GITHUB_PAT, call, requests, result>>

\* fault: the helper's return value is kept in one buffer the invocations
\* share, and the tool reads that of the first invocation still closing
shared_data(i) == awaited[CHOOSE j \in Procs : pc[j] = "closing"]

\* the local `data` (`repos`) of the tool: what its own await gave it
local_data(i) == awaited[i]

\* githubclaude.py: the client is closed, make_github_request returns and
\* the tool builds its string res from its local data
Return(i, op, res) ==
  /\ pc[i] = "closing"
  /\ call[i].op = op
  /\ pc' = [pc EXCEPT ![i] = "done"]
  /\ result' = [result EXCEPT ![i] = res]
  /\ UNCHANGED <<GITHUB_PAT, call, requests, response, awaited>>

server_get_user_info(i, load) ==
  \/ \E username \in In(load, Usernames) :
       Send(i, "server", "get_user_info", [NoArgs EXCEPT !.username = username],
            server_get_user_info_request(username))
  \/ \E o \in Outcomes(load, UserBodies) :
       Receive(i, "server", "get_user_info", o,
               server_get_user_info_return(call[i].args, o))

server_create_repository(i, load) ==
  \/ \E name \in In(load, RepoNames), description \in In(load, Descriptions), private \in In(load, BOOLEAN) :
       Send(i, "server", "create_repository",
            [NoArgs EXCEPT !.name = name, !.description = description, !.private = private],
            server_create_repository_request(name, description, private))
  \/ \E o \in Outcomes(load, RepoBodies) :
       Receive(i, "server", "create_repository", o,
               server_create_repository_return(call[i].args, o))

server_delete_repository(i, load) ==
  \/ \E owner \in Varied(load, Owners), repo \in In(load, RepoNames) :
       Send(i, "server", "delete_repository",
            [NoArgs EXCEPT !.owner = owner, !.repo = repo],
            server_delete_repository_request(owner, repo))
  \/ \E o \in Outcomes(load, DeleteBodies) :
       Receive(i, "server", "delete_repository", o,
               server_delete_repository_return(call[i].args, o))

server_create_pull_request(i, load) ==
  \/ \E owner \in In(load, Owners), repo \in In(load, RepoNames), body \in In(load, PullBodies) :
       Send(i, "server", "create_pull_request",
            [NoArgs EXCEPT !.owner = owner, !.repo = repo, !.title = "Fix",
                           !.head = "feature", !.base = "main", !.body = body],
            server_create_pull_request_request(owner, repo, "Fix", "feature", "main", body))
  \/ \E o \in Outcomes(load, PullBodiesOut) :
       Receive(i, "server", "create_pull_request", o,
               server_create_pull_request_return(call[i].args, o))

server_merge_pull_request(i, load) ==
  \/ \E owner \in In(load, Owners), repo \in In(load, RepoNames), pull_number \in Varied(load, PullNumbers),
        commit_message \in In(load, CommitMessages) :
       Send(i, "server", "merge_pull_request",
            [NoArgs EXCEPT !.owner = owner, !.repo = repo, !.pull_number = pull_number,
                           !.commit_message = commit_message],
            server_merge_pull_request_request(owner, repo, pull_number, commit_message))
  \/ \E o \in Outcomes(load, MergeBodies) :
       Receive(i, "server", "merge_pull_request", o,
               server_merge_pull_request_return(call[i].args, o))

server_list_repositories(i, load) ==
  \/ \E username \in In(load, ListUsernames) :
       Send(i, "server", "list_repositories", [NoArgs EXCEPT !.username = username],
            server_list_repositories_request(username))
  \/ \E o \in Outcomes(load, ListBodies) :
       Receive(i, "server", "list_repositories", o,
               server_list_repositories_return(call[i].args, o))

\* hello_world touches no network: it is entered and returns in one step
hello_world(i, variant, load) ==
  \E name \in In(load, HelloNames) :
    /\ pc[i] = "idle"
    /\ pc' = [pc EXCEPT ![i] = "done"]
    /\ call' = [call EXCEPT ![i] =
                  [variant |-> variant, op |-> "hello_world",
                   args |-> [NoArgs EXCEPT !.name = name]]]
    /\ result' = [result EXCEPT ![i] = hello_world_return([NoArgs EXCEPT !.name = name])]
    /\ UNCHANGED <<GITHUB_PAT, requests, response, awaited>>

server_hello_world(i, load) == hello_world(i, "server", load)

claude_github_user_info(i, load) ==
  \/ \E username \in In(load, Usernames) :
       Send(i, "claude", "get_user_info", [NoArgs EXCEPT !.username = username],
            claude_github_user_info_request(username))
  \/ \E o \in Outcomes(load, UserBodies) :
       Resume(i, "get_user_info", o, claude_make_github_request_return(o))
  \/ Return(i, "get_user_info", claude_github_user_info_return(call[i].args, local_data(i)))

claude_create_repository(i, load) ==
  \/ \E name \in In(load, RepoNames), description \in In(load, Descriptions), private \in In(load, BOOLEAN) :
       Send(i, "claude", "create_repository",
            [NoArgs EXCEPT !.name = name, !.description = description, !.private = private],
            claude_create_repository_request(name, description, private))
  \/ \E o \in Outcomes(load, RepoBodies) :
       Resume(i, "create_repository", o, claude_make_github_request_return(o))
  \/ Return(i, "create_repository", claude_create_repository_return(call[i].args, local_data(i)))

claude_delete_repository(i, load) ==
  \/ \E owner \in Varied(load, Owners), repo \in In(load, RepoNames) :
       Send(i, "claude", "delete_repository",
            [NoArgs EXCEPT !.owner = owner, !.repo = repo],
            claude_delete_repository_request(owner, repo))
  \/ \E o \in Outcomes(load, DeleteBodies) :
       Resume(i, "delete_repository", o, claude_make_github_request_return(o))
  \/ Return(i, "delete_repository", claude_delete_repository_return(call[i].args, local_data(i)))

claude_create_pull_request(i, load) ==
  \/ \E owner \in In(load, Owners), repo \in In(load, RepoNames), body \in In(load, PullBodies) :
       Send(i, "claude", "create_pull_request",
            [NoArgs EXCEPT !.owner = owner, !.repo = repo, !.title = "Fix",
                           !.head = "feature", !.base = "main", !.body = body],
            claude_create_pull_request_request(owner, repo, "Fix", "feature", "main", body))
  \/ \E o \in Outcomes(load, PullBodiesOut) :
       Resume(i, "create_pull_request", o, claude_make_github_request_return(o))
  \/ Return(i, "create_pull_request", claude_create_pull_request_return(call[i].args, local_data(i)))

claude_merge_pull_request(i, load) ==
  \/ \E owner \in In(load, Owners), repo \in In(load, RepoNames), pull_number \in Varied(load, PullNumbers),
        commit_message \in In(load, CommitMessages) :
       Send(i, "claude", "merge_pull_request",
            [NoArgs EXCEPT !.owner = owner, !.repo = repo, !.pull_number = pull_number,
                           !.commit_message = commit_message],
            claude_merge_pull_request_request(owner, repo, pull_number, commit_message))
  \/ \E o \in Outcomes(load, MergeBodies) :
       Resume(i, "merge_pull_request", o, claude_make_github_request_return(o))
  \/ Return(i, "merge_pull_request", claude_merge_pull_request_return(call[i].args, local_data(i)))

claude_list_repositories(i, load) ==
  \/ \E username \in In(load, ListUsernames) :
       Send(i, "claude", "list_repositories", [NoArgs EXCEPT !.username = username],
            claude_list_repositories_request(username))
  \/ \E o \in Outcomes(load, ListBodies) :
       Resume(i, "list_repositories", o, claude_make_github_request_return(o))
  \/ Return(i, "list_repositories", claude_list_repositories_return(call[i].args, local_data(i)))

claude_hello_world(i, load) == hello_world(i, "claude", load)

\* the framework takes the outcome of a finished invocation; the slot is free
Deliver(i) ==
  /\ pc[i] = "done"
  /\ pc' = [pc EXCEPT ![i] = "idle"]
  /\ call' = [call EXCEPT ![i] = NoCall]
  /\ requests' = [requests EXCEPT ![i] = <<>>]
  /\ response' = [response EXCEPT ![i] = NoResponse]
  /\ awaited' = [awaited EXCEPT ![i] = NoBody]
  /\ result' = [result EXCEPT ![i] = NoResult]
  /\ UNCHANGED GITHUB_PAT

\* the framework dispatches one invocation at a time
Alone(i) == \A j \in Procs \ {i} : pc[j] = "idle"

Next ==
  \/ \E i \in Procs : Alone(i) /\ claude_delete_repository(i, "full")
  \/ \E i \in Procs : Alone(i) /\ claude_list_repositories(i, "full")
  \/ \E i \in Procs : Alone(i) /\ claude_github_user_info(i, "full")
  \/ \E i \in Procs : Alone(i) /\ claude_create_repository(i, "full")
  \/ \E i \in Procs : Alone(i) /\ claude_create_pull_request(i, "full")
  \/ \E i \in Procs : Alone(i) /\ claude_merge_pull_request(i, "full")
  \/ \E i \in Procs : Alone(i) /\ claude_hello_world(i, "full")
  \/ \E i \in Procs : Alone(i) /\ server_delete_repository(i, "full")
  \/ \E i \in Procs : Alone(i) /\ server_list_repositories(i, "full")
  \/ \E i \in Procs : Alone(i) /\ server_get_user_info(i, "full")
  \/ \E i \in Procs : Alone(i) /\ server_create_repository(i, "full")
  \/ \E i \in Procs : Alone(i) /\ server_create_pull_request(i, "full")
  \/ \E i \in Procs : Alone(i) /\ server_merge_pull_request(i, "full")
  \/ \E i \in Procs : Alone(i) /\ server_hello_world(i, "full")
  \/ \E i \in Procs : Alone(i) /\ Deliver(i)

Spec == Init /\ [][Next]_vars

\* the framework dispatches invocations concurrently: the slots interleave
ConcNext ==
  \/ \E i \in Procs : claude_delete_repository(i, "some")
  \/ \E i \in Procs : claude_list_repositories(i, "some")
  \/ \E i \in Procs : claude_github_user_info(i, "some")
  \/ \E i \in Procs : claude_create_repository(i, "some")
  \/ \E i \in Procs : claude_create_pull_request(i, "some")
  \/ \E i \in Procs : claude_merge_pull_request(i, "some")
  \/ \E i \in Procs : claude_hello_world(i, "some")
  \/ \E i \in Procs : server_delete_repository(i, "one")
  \/ \E i \in Procs : server_list_repositories(i, "one")
  \/ \E i \in Procs : server_get_user_info(i, "one")
  \/ \E i \in Procs : server_create_repository(i, "one")
  \/ \E i \in Procs : server_create_pull_request(i, "one")
  \/ \E i \in Procs : server_merge_pull_request(i, "one")
  \/ \E i \in Procs : server_hello_world(i, "one")
  \/ \E i \in Procs : Deliver(i)

ConcSpec == Init /\ [][ConcNext]_vars

(* ============================== claims ================================ *)
Active(i) == pc[i] # "idle"
Done(i) == pc[i] = "done"
Networked(i) == Active(i) /\ call[i].op # "hello_world"
DoneOp(i, op) == Done(i) /\ call[i].op = op

Ok2xx(o) == ~o.exc /\ 200 <= o.status /\ o.status <= 299
AllDicts(items) == \A k \in 1..Len(items) : items[k].t = "obj"

\* the body is not of the JSON shape the operation reads
Malformed(op, body) ==
  CASE op = "delete_repository" -> FALSE
    [] op = "list_repositories" -> ~(body.t = "list" /\ AllDicts(body.items))
    [] OTHER -> body.t # "obj"

\* a non-2xx response, a transport exception, or a malformed/absent body
Failed(i) == ~Ok2xx(response[i]) \/ Malformed(call[i].op, response[i].body)

HasErrorMarker(text) == \E k \in 1..Len(text) : text[k] = "Error"

RECURSIVE Lines(_)
\* the lines of a text
Lines(text) ==
  IF \A k \in 1..Len(text) : text[k] # NL THEN <<text>>
  ELSE LET k == CHOOSE k \in 1..Len(text) :
                  text[k] = NL /\ \A m \in 1..(k - 1) : text[m] # NL
       IN <<SubSeq(text, 1, k - 1)>> \o Lines(SubSeq(text, k + 1, Len(text)))

\* the lines of a text that start with the segment `first`, in order
LinesFrom(text, first) ==
  SelectSeq(Lines(text), LAMBDA l : l # <<>> /\ l[1] = first)

Confirmation(a) == <<"Repository ", a.owner, "/", a.repo, " was deleted successfully!">>

\* C1: every operation but hello_world, in both variants, answers a non-2xx
\* response, a transport exception or a malformed/absent body with a string
\* (it does not raise) that carries an "Error" marker.
C1_FailuresReturnMarkedString ==
  \A i \in Procs :
    (Done(i) /\ Networked(i) /\ Failed(i))
      => (~result[i].raised /\ HasErrorMarker(result[i].text))

\* C2: delete_repository returns the confirmation naming owner/repo when the
\* DELETE ends 2xx (whatever the body), and an error string, not the
\* confirmation, when the call fails (non-2xx or transport failure).
C2_DeleteConfirmsIff2xx ==
  \A i \in Procs :
    DoneOp(i, "delete_repository") =>
      /\ ~result[i].raised
      /\ Ok2xx(response[i]) => result[i].text = Confirmation(call[i].args)
      /\ ~Ok2xx(response[i]) =>
           (result[i].text # Confirmation(call[i].args) /\ HasErrorMarker(result[i].text))

NoRepositoriesMessages ==
  {<<"No repositories found.">>, <<"No repositories found or error occurred.">>}

EmptyCollection(body) ==
  \/ body.t = "list" /\ body.items = <<>>
  \/ body.t = "obj" /\ DOMAIN body.fields = {}

\* C3: list_repositories returns the no-repositories message if and only if
\* the remote call completed and yielded an empty collection; a failed call
\* yields an error string instead.
C3_NoRepositoriesIffEmpty ==
  \A i \in Procs :
    DoneOp(i, "list_repositories") =>
      /\ (~result[i].raised /\ result[i].text \in NoRepositoriesMessages)
           <=> (Ok2xx(response[i]) /\ EmptyCollection(response[i].body))
      /\ ~Ok2xx(response[i]) =>
           (~result[i].raised /\ HasErrorMarker(result[i].text))

\* the entry the listing shows for one repository of the response
EntryFor(item) ==
  <<"- ">>
  \o (IF "full_name" \in DOMAIN item.fields THEN item.fields["full_name"].s ELSE <<"None">>)
  \o <<": ">>
  \o (IF "description" \in DOMAIN item.fields
        THEN item.fields["description"].s ELSE <<"No description">>)
  \o <<" (">>
  \o (IF "html_url" \in DOMAIN item.fields THEN item.fields["html_url"].s ELSE <<"None">>)
  \o <<")">>

Min(x, y) == IF x < y THEN x ELSE y

Listed(i) ==
  /\ DoneOp(i, "list_repositories")
  /\ Ok2xx(response[i])
  /\ response[i].body.t = "list"
  /\ Len(response[i].body.items) >= 1
  /\ AllDicts(response[i].body.items)

\* C4: for a collection of N >= 1 repositories the listing has exactly
\* min(N, 10) entry lines, those of the first 10 repositories in the order
\* returned; the note "10 of N" ends it when N > 10 and is absent otherwise.
C4_ListingShowsFirstTen ==
  \A i \in Procs :
    Listed(i) =>
      LET items == response[i].body.items
          N == Len(items)
          entries == LinesFrom(result[i].text, "- ")
          notes == LinesFrom(result[i].text, "(Showing ")
          lines == Lines(result[i].text)
      IN /\ ~result[i].raised
         /\ Len(entries) = Min(N, 10)
         /\ \A k \in 1..Len(entries) : entries[k] = EntryFor(items[k])
         /\ N > 10 =>
              /\ notes = <<lines[Len(lines)]>>
              /\ SubSeq(notes[1], 2, 4) = <<"10", " of ", ToString(N)>>
         /\ N <= 10 => notes = <<>>

C4_Witness ==
  \E i \in Procs :
    /\ Listed(i)
    /\ Len(response[i].body.items) > 10
    /\ response[i].body.items[1] # RepoItem(1)

\* C5: merge_pull_request sends one PUT to
\* /repos/{owner}/{repo}/pulls/{pull_number}/merge whose body has the field
\* commit_message, equal to the input, exactly when the input is non-empty,
\* and no other field.
C5_MergeBodyCommitMessage ==
  \A i \in Procs :
    (Active(i) /\ call[i].op = "merge_pull_request") =>
      LET a == call[i].args
          r == requests[i][1]
      IN /\ Len(requests[i]) = 1
         /\ r.method = "PUT"
         /\ r.url = <<"https://api.github.com", "/repos/", a.owner, "/", a.repo,
                      "/pulls/", ToString(a.pull_number), "/merge">>
         /\ r.json.present
         /\ a.commit_message = "" => DOMAIN r.json.fields = {}
         /\ a.commit_message # "" =>
              /\ DOMAIN r.json.fields = {"commit_message"}
              /\ r.json.fields["commit_message"] = JStr(a.commit_message)

C5_Witness ==
  \E i \in Procs :
    /\ pc[i] = "awaiting"
    /\ call[i].op = "merge_pull_request"
    /\ call[i].args.commit_message # ""

Created(i) ==
  /\ DoneOp(i, "create_repository")
  /\ Ok2xx(response[i])
  /\ response[i].body.t = "obj"
  /\ "private" \in DOMAIN response[i].body.fields
  /\ response[i].body.fields["private"].t = "bool"

\* C6: create_repository POSTs to /user/repos a body whose private, name and
\* description equal the inputs; on success the "Private:" line shows the
\* private flag of the response, not the input.
C6_PrivateSentAndEchoed ==
  \A i \in Procs :
    (Active(i) /\ call[i].op = "create_repository") =>
      LET a == call[i].args
          r == requests[i][1]
      IN /\ Len(requests[i]) = 1
         /\ r.method = "POST"
         /\ r.url = <<"https://api.github.com", "/user/repos">>
         /\ r.json.present
         /\ DOMAIN r.json.fields = {"name", "description", "private"}
         /\ r.json.fields["private"] = JBool(a.private)
         /\ r.json.fields["name"] = JStr(a.name)
         /\ r.json.fields["description"] = JStr(a.description)
         /\ Created(i) =>
              /\ ~result[i].raised
              /\ LinesFrom(result[i].text, "Private:") =
                   << <<"Private:", " ",
                        IF response[i].body.fields["private"].b THEN "True" ELSE "False">> >>

C6_Witness ==
  \E i \in Procs :
    /\ Created(i)
    /\ response[i].body.fields["private"].b # call[i].args.private

Fetched(i) ==
  /\ DoneOp(i, "get_user_info")
  /\ Ok2xx(response[i])
  /\ response[i].body.t = "obj"
  /\ "login" \in DOMAIN response[i].body.fields

\* the summary line of a field and the placeholder it shows when absent
Placeholders ==
  { <<"bio", "Bio:", "N/A">>, <<"public_repos", "Public Repos:", "0">>,
    <<"followers", "Followers:", "0">>, <<"following", "Following:", "0">>,
    <<"location", "Location:", "N/A">>, <<"company", "Company:", "N/A">>,
    <<"created_at", "Created:", "N/A">> }

\* the text ends with the segments of `tail`
EndsWith(text, tail) ==
  /\ Len(text) >= Len(tail)
  /\ SubSeq(text, Len(text) - Len(tail) + 1, Len(text)) = tail

\* C7: get_user_info issues exactly one GET to /users/{username}; when the
\* call succeeds the summary contains the login of the response and shows
\* the placeholder of every summary field the response lacks.
C7_UserSummary ==
  \A i \in Procs :
    (Active(i) /\ call[i].op = "get_user_info") =>
      LET a == call[i].args
          r == requests[i][1]
      IN /\ Len(requests[i]) = 1
         /\ r.method = "GET"
         /\ r.url = <<"https://api.github.com", "/users/", a.username>>
         /\ Fetched(i) =>
              LET f == response[i].body.fields
                  user == LinesFrom(result[i].text, "User:")
                  login == <<" (@">> \o f["login"].s \o <<")">>
              IN /\ ~result[i].raised
                 /\ Len(user) = 1
                 /\ EndsWith(user[1], login)
                 /\ "name" \notin DOMAIN f => user[1] = <<"User:", " ", "N/A">> \o login
                 /\ \A p \in Placeholders :
                      p[1] \notin DOMAIN f =>
                        LinesFrom(result[i].text, p[2]) = << <<p[2], " ", p[3]>> >>

C7_Witness ==
  \E i \in Procs :
    /\ Fetched(i)
    /\ DOMAIN response[i].body.fields = {"login"}

\* C8: every invocation of an operation other than hello_world issues
\* exactly one outbound call, never a second one after a failure, and ends
\* by returning one string whatever the outcome; hello_world issues none.
C8_OneCallOneString ==
  \A i \in Procs :
    /\ Networked(i) => Len(requests[i]) = 1
    /\ (Active(i) /\ call[i].op = "hello_world") => requests[i] = <<>>
    /\ Done(i) => (~result[i].raised /\ result[i].text # <<>>)

\* the credential is present: the variable is set to a non-empty token
CredentialPresent == GITHUB_PAT.set /\ GITHUB_PAT.value # ""

\* C9: every outbound request carries an authorization header if and only
\* if the credential is present, the header holds the credential, and
\* without a credential the request is sent all the same.
C9_AuthorizationIffCredential ==
  \A i \in Procs :
    /\ Networked(i) => requests[i] # <<>>
    /\ \A k \in 1..Len(requests[i]) :
         LET h == requests[i][k].headers IN
         /\ "Authorization" \in DOMAIN h <=> CredentialPresent
         /\ CredentialPresent =>
              h["Authorization"][Len(h["Authorization"])] = GITHUB_PAT.value

C9_Witness ==
  \E i \in Procs :
    /\ ~CredentialPresent
    /\ pc[i] = "awaiting"
    /\ Len(requests[i]) = 1

\* a step leaves alone every invocation that does not take it
Frame ==
  \A j \in Procs :
    pc'[j] = pc[j] =>
      /\ call'[j] = call[j]
      /\ requests'[j] = requests[j]
      /\ response'[j] = response[j]
      /\ awaited'[j] = awaited[j]
      /\ result'[j] = result[j]

\* what an invocation of the synchronous server returns for its own
\* parameters and the outcome of its own request, under the credential
OwnServer(op, a, o) ==
  CASE op = "get_user_info" -> server_get_user_info_return(a, o)
    [] op = "create_repository" -> server_create_repository_return(a, o)
    [] op = "delete_repository" -> server_delete_repository_return(a, o)
    [] op = "create_pull_request" -> server_create_pull_request_return(a, o)
    [] op = "merge_pull_request" -> server_merge_pull_request_return(a, o)
    [] op = "list_repositories" -> server_list_repositories_return(a, o)
    [] OTHER -> hello_world_return(a)

\* the same for the asynchronous server
OwnClaude(op, a, o) ==
  LET d == claude_make_github_request_return(o) IN
  CASE op = "get_user_info" -> claude_github_user_info_return(a, d)
    [] op = "create_repository" -> claude_create_repository_return(a, d)
    [] op = "delete_repository" -> claude_delete_repository_return(a, d)
    [] op = "create_pull_request" -> claude_create_pull_request_return(a, d)
    [] op = "merge_pull_request" -> claude_merge_pull_request_return(a, d)
    [] op = "list_repositories" -> claude_list_repositories_return(a, d)
    [] OTHER -> hello_world_return(a)

Own(c, o) ==
  IF c.variant = "server" THEN OwnServer(c.op, c.args, o) ELSE OwnClaude(c.op, c.args, o)

\* the result of a finished invocation is the one its own parameters, the
\* credential and the response to its own request give, whatever ran before
\* or alongside it; so equal parameters and responses give equal results
Independent ==
  /\ \A i \in Procs : Done(i) => result[i] = Own(call[i], response[i])
  /\ \A i, j \in Procs :
       (Done(i) /\ Done(j) /\ call[i] = call[j] /\ response[i] = response[j])
         => result[i] = result[j]

\* C10: no step of any operation changes the credential or touches another
\* invocation, and under interleaved invocations the result of each depends
\* only on its own parameters, the credential and the response to its own
\* request, never on the invocations that ran before or alongside it.
C10_NoSharedState ==
  /\ [][GITHUB_PAT' = GITHUB_PAT /\ Frame]_vars
  /\ []Independent

\* an invocation of the asynchronous server has returned while another one
\* of the same operation, given another response, waits for its client to close
C10_Witness ==
  \E i, j \in Procs :
    /\ i # j
    /\ Done(i) /\ pc[j] = "closing"
    /\ call[i].variant = "claude" /\ call[j].variant = "claude"
    /\ call[i].op = call[j].op
    /\ call[i].args # call[j].args
    /\ awaited[i] # awaited[j]
    /\ CredentialPresent

====
